---------------------------- MODULE Spec2Model ----------------------------
(***************************************************************************)
(* Model of internal/coreinternal/pdatautil/hash.go: the structural hash   *)
(* of pcommon values (MapHash, ValueHash), its pooled hashWriter and the   *)
(* 128-bit widening of the 64-bit streaming hash.                          *)
(*                                                                         *)
(* Bytes are the integers 0..255, strings and byte slices are sequences of *)
(* bytes.  A pcommon.Map is the sequence of its key/value entries in       *)
(* insertion order (Range walks it in that order, Get returns the first    *)
(* entry with the key).  The xxhash accumulator is modelled by the bytes   *)
(* written to it since the last Reset; Sum64 is a fixed function of them.  *)
(* The operators of the encoder take the marker variables as their first   *)
(* argument mk.                                                            *)
(***************************************************************************)
EXTENDS Integers, Sequences, FiniteSets, TLC

VARIABLES
    markers,   \* the package-level marker byte slices (hash.go 28-42)
    pool,      \* hashWriterPool: the idle hashWriters
    nextId,    \* number of hashWriters constructed so far (their identity)
    pc,        \* pc[c]: where caller c is inside MapHash / ValueHash
    call,      \* call[c]: the entry point and argument of caller c's call
    hw,        \* hw[c]: the hashWriter caller c holds, with the call's control state
    res,       \* res[c]: outcome of the latest call caller c completed
    prev,      \* outcome of the call completed before the latest one
    ncalls     \* number of calls started

vars == <<markers, pool, nextId, pc, call, hw, res, prev, ncalls>>

\* ------------------------------------------------------------------ bounds

\* Number of parallel callers of the concurrent specification.
NumCallers == 2

\* Number of top-level hash calls started in one behaviour.
MaxCalls == 2

\* ------------------------------------------------------- program constants

extraByte == 243
keyPrefix == 244
\* An empty marker that reuses the key marker's byte.
valEmptyAsKeyPrefix == keyPrefix

valEmpty == 245
valBytesPrefix == 246
valStrPrefix == 247
valBoolTrue == 248
valBoolFalse == 249
valIntPrefix == 250
valDoublePrefix == 251
valMapPrefix == 252
valMapSuffix == 253
valSlicePrefix == 254
valSliceSuffix == 255

\* make([]string, 0, 16): capacity of a new hashWriter's keysBuf.
keysBufCap == 16

\* make([]byte, 8): the 64-bit scratch buffer.
numBufLen == 8

\* The marker variables as the package initialises them: one-byte slices.
MarkerVars ==
    [extraByte |-> <<extraByte>>, keyPrefix |-> <<keyPrefix>>,
     valEmpty |-> <<valEmpty>>, valBytesPrefix |-> <<valBytesPrefix>>,
     valStrPrefix |-> <<valStrPrefix>>, valBoolTrue |-> <<valBoolTrue>>,
     valBoolFalse |-> <<valBoolFalse>>, valIntPrefix |-> <<valIntPrefix>>,
     valDoublePrefix |-> <<valDoublePrefix>>, valMapPrefix |-> <<valMapPrefix>>,
     valMapSuffix |-> <<valMapSuffix>>, valSlicePrefix |-> <<valSlicePrefix>>,
     valSliceSuffix |-> <<valSliceSuffix>>]

\* ------------------------------------------------------------ value model

NewValueEmpty == [type |-> "Empty"]
NewValueBool(b) == [type |-> "Bool", b |-> b]
NewValueInt(i) == [type |-> "Int", i |-> i]
\* A float64 is carried by its IEEE-754 bit pattern, least significant byte first.
NewValueDouble(bits) == [type |-> "Double", bits |-> bits]
NewValueStr(s) == [type |-> "Str", str |-> s]
NewValueBytes(b) == [type |-> "Bytes", bytes |-> b]
NewValueSlice(elems) == [type |-> "Slice", elems |-> elems]
NewValueMap(kvs) == [type |-> "Map", kvs |-> kvs]
KV(k, v) == [key |-> k, val |-> v]

\* Map.Get: index of the first entry with key k, 0 when there is none.
Get(m, k) ==
    IF \E j \in 1..Len(m) : m[j].key = k
    THEN CHOOSE j \in 1..Len(m) :
            m[j].key = k /\ \A i \in 1..(j - 1) : m[i].key # k
    ELSE 0

\* --------------------------------------------------------- pure helpers

\* Byte-wise (ordinal) string order: Go's < on strings, used by sort.Strings.
RECURSIVE LessStr(_, _)
LessStr(a, b) ==
    IF b = <<>> THEN FALSE
    ELSE IF a = <<>> THEN TRUE
    ELSE IF a[1] # b[1] THEN a[1] < b[1]
    ELSE LessStr(Tail(a), Tail(b))

RECURSIVE InsertSorted(_, _)
InsertSorted(s, k) ==
    IF s = <<>> THEN <<k>>
    ELSE IF LessStr(k, s[1]) THEN <<k>> \o s
    ELSE <<s[1]>> \o InsertSorted(Tail(s), k)

\* sort.Strings on a slice of strings.
RECURSIVE SortStrings(_)
SortStrings(s) ==
    IF s = <<>> THEN <<>>
    ELSE InsertSorted(SortStrings(Tail(s)), s[1])

\* binary.LittleEndian.PutUint64 of a non-negative number below 2^31.
PutUint64(n) ==
    <<n % 256, (n \div 256) % 256, (n \div 65536) % 256, (n \div 16777216) % 256,
      0, 0, 0, 0>>

\* uint64(v.Int()) written little endian: two's complement for negatives.
IntBytes(i) ==
    IF i >= 0 THEN PutUint64(i)
    ELSE LET p == PutUint64(-i - 1) IN [j \in 1..numBufLen |-> 255 - p[j]]

\* Digest.Sum64: a deterministic function of the bytes written since Reset.
\* A mixing of the two halves of the stream, modulo a prime, stands in for
\* xxhash's arithmetic.
RECURSIVE Sum64(_)
Sum64(s) ==
    IF Len(s) = 0 THEN 977
    ELSE IF Len(s) = 1 THEN (s[1] * 2654435 + 40503) % 8388593
    ELSE LET half == Len(s) \div 2
         IN (Sum64(SubSeq(s, 1, half)) * 251
               + Sum64(SubSeq(s, half + 1, Len(s))) * 3 + Len(s)) % 8388593

\* Digest.Sum(b): appends the sum to b, most significant byte first.
SumAppend(b, s) ==
    LET n == Sum64(s)
    IN b \o <<0, 0, 0, 0, 0, (n \div 65536) % 256, (n \div 256) % 256, n % 256>>

\* ------------------------------------------------------------ hashWriter

\* newHashWriter: a hashWriter with empty accumulator and scratch buffers.
\* arrs holds the backing arrays of keysBuf this writer's code can still
\* reach, kb the slice header of hw.keysBuf (backing array and length);
\* fault and ev are the control state of the call using the writer: whether
\* it panicked, and the operations the accumulator has seen.
newHashWriter(id) ==
    [id |-> id,
     h |-> <<>>,
     strBuf |-> <<>>,
     arrs |-> << [i \in 1..keysBufCap |-> <<>>] >>,
     kb |-> [arr |-> 1, len |-> 0],
     sumHash |-> <<>>,
     numBuf |-> [i \in 1..numBufLen |-> 0],
     fault |-> FALSE,
     ev |-> <<>>]

\* hw.h.Reset()
Reset(e) == [e EXCEPT !.h = <<>>, !.ev = @ \o <<"Reset">>]

\* hw.h.Write(p); a call that has panicked executes nothing further.
Write(e, p) ==
    IF e.fault THEN e
    ELSE [e EXCEPT !.h = @ \o p, !.ev = @ \o <<"Write">>]

\* Capacity append gives a full slice of strings: Go doubles small slices.
GrowCap(c) == 2 * c

\* hw.keysBuf = append(hw.keysBuf, k)
AppendKey(e, k) ==
    LET a == e.kb.arr
        n == e.kb.len
        c == Len(e.arrs[a])
    IN IF n < c
       THEN [e EXCEPT !.arrs[a][n + 1] = k, !.kb.len = n + 1]
       ELSE [e EXCEPT
               !.arrs = @ \o << [i \in 1..GrowCap(c) |->
                                   IF i <= n THEN e.arrs[a][i]
                                   ELSE IF i = n + 1 THEN k ELSE <<>>] >>,
               !.kb = [arr |-> Len(e.arrs) + 1, len |-> n + 1]]

\* m.Range(func(k, v) { hw.keysBuf = append(hw.keysBuf, k) }), from entry j on.
RECURSIVE RangeKeys(_, _, _)
RangeKeys(e, m, j) ==
    IF j > Len(m) THEN e
    ELSE RangeKeys(AppendKey(e, m[j].key), m, j + 1)

\* sort.Strings(hw.keysBuf): sorts the slice in place in its backing array.
SortKeysBuf(e) ==
    LET a == e.kb.arr
        n == e.kb.len
        sorted == SortStrings(SubSeq(e.arrs[a], 1, n))
    IN [e EXCEPT !.arrs[a] = [i \in 1..Len(e.arrs[a]) |->
                                IF i <= n THEN sorted[i] ELSE e.arrs[a][i]]]

RECURSIVE writeValueHash(_, _, _)
RECURSIVE writeSliceHash(_, _, _, _)
RECURSIVE writeMapLoop(_, _, _, _, _, _)

\* The for-range loop of writeMapHash from index i on.  The range expression
\* was evaluated once: the loop walks the first n slots of backing array a,
\* whatever hw.keysBuf has become since.  A key Get does not find yields the
\* zero Value, and writeValueHash panics on its Type().
writeMapLoop(mk, e, m, a, n, i) ==
    IF e.fault \/ i > n THEN e
    ELSE LET k == e.arrs[a][i]
             j == Get(m, k)
             e1 == [e EXCEPT !.strBuf = mk.keyPrefix \o k]
             e2 == Write(e1, e1.strBuf)
             e3 == IF j = 0 THEN [e2 EXCEPT !.fault = TRUE]
                   ELSE writeValueHash(mk, e2, m[j].val)
         IN writeMapLoop(mk, e3, m, a, n, i + 1)

writeMapHash(mk, e, m) ==
    IF e.fault THEN e
    ELSE LET e1 == [e EXCEPT !.kb.len = 0]
             e2 == RangeKeys(e1, m, 1)
             e3 == SortKeysBuf(e2)
         IN writeMapLoop(mk, e3, m, e3.kb.arr, e3.kb.len, 1)

writeSliceHash(mk, e, sl, i) ==
    IF e.fault \/ i > Len(sl) THEN e
    ELSE writeSliceHash(mk, writeValueHash(mk, e, sl[i]), sl, i + 1)

writeValueHash(mk, e, v) ==
    IF e.fault THEN e
    ELSE CASE v.type = "Str" ->
                LET e1 == [e EXCEPT !.strBuf = mk.valStrPrefix \o v.str]
                IN Write(e1, e1.strBuf)
           [] v.type = "Bool" ->
                IF v.b THEN Write(e, mk.valBoolTrue)
                ELSE Write(e, mk.valBoolFalse)
           [] v.type = "Int" ->
                LET e1 == Write(e, mk.valIntPrefix)
                    e2 == [e1 EXCEPT !.numBuf = IntBytes(v.i)]
                IN Write(e2, e2.numBuf)
           [] v.type = "Double" ->
                LET e1 == Write(e, mk.valDoublePrefix)
                    e2 == [e1 EXCEPT !.numBuf = v.bits]
                IN Write(e2, e2.numBuf)
           [] v.type = "Map" ->
                Write(writeMapHash(mk, Write(e, mk.valMapPrefix), v.kvs),
                      mk.valMapSuffix)
           [] v.type = "Slice" ->
                Write(writeSliceHash(mk, Write(e, mk.valSlicePrefix), v.elems, 1),
                      mk.valSliceSuffix)
           [] v.type = "Bytes" ->
                Write(Write(e, mk.valBytesPrefix), v.bytes)
           [] v.type = "Empty" ->
                Write(e, mk.valEmpty)

\* hashSum128: the two sums around the extra byte, appended to sumHash[:0]
\* (hw.sumHash keeps length 0; its backing array keeps the bytes).
hashSum128(mk, e) ==
    LET b1 == SumAppend(<<>>, e.h)
        e1 == [e EXCEPT !.ev = @ \o <<"Sum">>]
        e2 == Write(e1, mk.extraByte)
        b2 == SumAppend(b1, e2.h)
    IN [e2 EXCEPT !.sumHash = b2, !.ev = @ \o <<"Sum">>]

\* ---------------------------------------------------------------- inputs

\* Keys and payloads: "a", "b", "c", "x", "y" as their bytes.
Ka == <<97>>
Kb == <<98>>
Kc == <<99>>
Kx == <<120>>
Ky == <<121>>

\* The UTF-8 encodings of U+C0000 and U+100000: valid four-byte sequences.
StrUC0000 == <<243, 128, 128, 128>>
StrU100000 == <<244, 128, 128, 128>>

\* 1.0 as a float64, least significant byte first.
Double1 == <<0, 0, 0, 0, 0, 0, 240, 63>>

\* A map with one key more than a new keysBuf holds: keys "a", "b", ... in
\* byte order, each with an Empty value.
WideKeys == [i \in 1..(keysBufCap + 1) |-> <<96 + i>>]
WideMap == [i \in 1..Len(WideKeys) |-> KV(WideKeys[i], NewValueEmpty)]
\* The same entries with the first two inserted in the other order.
WideMapSwapped ==
    [i \in 1..Len(WideKeys) |->
        IF i = 1 THEN WideMap[2] ELSE IF i = 2 THEN WideMap[1] ELSE WideMap[i]]

\* A map nested in a map with fewer keys, its keys among the outer ones.
InnerAC == NewValueMap(<<KV(Ka, NewValueInt(1)), KV(Kc, NewValueInt(2))>>)
\* A map nested in a two-key map, its keys not among the outer ones.
InnerXY == NewValueMap(<<KV(Kx, NewValueInt(1)), KV(Ky, NewValueInt(-2))>>)

Values ==
    { NewValueEmpty,
      NewValueInt(1),
      NewValueSlice(<<NewValueInt(1)>>),
      NewValueSlice(<<NewValueSlice(<<NewValueInt(1)>>)>>),
      NewValueSlice(<<>>),
      NewValueMap(<<>>),
      NewValueMap(<<KV(Ka, NewValueInt(1))>>),
      NewValueSlice(<<NewValueStr(Ka), NewValueInt(1)>>),
      NewValueSlice(<<NewValueBytes(<<>>), NewValueEmpty>>),
      NewValueSlice(<<NewValueBytes(<<valEmpty>>)>>),
      NewValueMap(<<KV(Kb, NewValueDouble(Double1)), KV(Ka, NewValueStr(Kx))>>),
      NewValueMap(<<KV(Ka, NewValueStr(Kx)), KV(Kb, NewValueDouble(Double1))>>),
      NewValueMap(<<KV(Ka, InnerAC), KV(Kb, NewValueBool(TRUE)), KV(Kc, NewValueEmpty)>>),
      NewValueMap(<<KV(Ka, InnerAC), KV(Kb, NewValueBool(FALSE)), KV(Kc, NewValueEmpty)>>),
      NewValueMap(<<KV(Ka, InnerXY), KV(Kb, NewValueInt(3))>>),
      NewValueSlice(<<NewValueMap(<<KV(Ka, InnerXY), KV(Kb, NewValueInt(3))>>)>>),
      NewValueMap(<<KV(Ka, NewValueMap(WideMap)), KV(Kb, NewValueEmpty)>>),
      NewValueMap(<<KV(Ka, NewValueMap(WideMapSwapped)), KV(Kb, NewValueEmpty)>>),
      NewValueMap(<<KV(StrUC0000, NewValueStr(StrU100000))>>) }

\* The top-level calls: ValueHash of a value, MapHash of a map.
Calls ==
    { [fn |-> "ValueHash", arg |-> v] : v \in Values }
    \cup { [fn |-> "MapHash", arg |-> v] : v \in {w \in Values : w.type = "Map"} }

\* ------------------------------------------------------------- the system

Callers == 1..NumCallers

NoWriter == [id |-> 0]
NoCall == [fn |-> "none"]
NoResult == [fn |-> "none"]

\* What sync.Pool holds of a hashWriter: the writer without the control
\* state of the call that used it.
Pooled(e) == [e EXCEPT !.fault = FALSE, !.ev = <<>>]

\* Backing arrays no slice refers to any more are gone after the encoder
\* returns: only the array of hw.keysBuf is kept.
Reachable(e) == [e EXCEPT !.arrs = <<e.arrs[e.kb.arr]>>, !.kb.arr = 1]

Init ==
    /\ markers = MarkerVars
    /\ pool = {}
    /\ nextId = 0
    /\ pc = [c \in Callers |-> "idle"]
    /\ call = [c \in Callers |-> NoCall]
    /\ hw = [c \in Callers |-> NoWriter]
    /\ res = [c \in Callers |-> NoResult]
    /\ prev = [c \in Callers |-> NoResult]
    /\ ncalls = 0

\* The entry of MapHash / ValueHash: hashWriterPool.Get() returns an idle writer.
GetPooled(c, cl) ==
    /\ pc[c] = "idle"
    /\ ncalls < MaxCalls
    /\ \E w \in pool :
          /\ pool' = pool \ {w}
          /\ hw' = [hw EXCEPT ![c] = w]
          /\ call' = [call EXCEPT ![c] =
                        [fn |-> cl.fn, arg |-> cl.arg, fresh |-> FALSE,
                         cap0 |-> Len(w.arrs[w.kb.arr])]]
    /\ pc' = [pc EXCEPT ![c] = "got"]
    /\ ncalls' = ncalls + 1
    /\ UNCHANGED <<markers, nextId, res, prev>>

\* hashWriterPool.Get() finds nothing to hand out and calls New.
GetNew(c, cl) ==
    /\ pc[c] = "idle"
    /\ ncalls < MaxCalls
    /\ hw' = [hw EXCEPT ![c] = newHashWriter(nextId + 1)]
    /\ nextId' = nextId + 1
    /\ call' = [call EXCEPT ![c] =
                  [fn |-> cl.fn, arg |-> cl.arg, fresh |-> TRUE, cap0 |-> keysBufCap]]
    /\ pc' = [pc EXCEPT ![c] = "got"]
    /\ ncalls' = ncalls + 1
    /\ UNCHANGED <<markers, pool, res, prev>>

\* hw.h.Reset()
DoReset(c) ==
    /\ pc[c] = "got"
    /\ hw' = [hw EXCEPT ![c] = Reset(@)]
    /\ pc' = [pc EXCEPT ![c] = "reset"]
    /\ UNCHANGED <<markers, pool, nextId, call, res, prev, ncalls>>

\* A MapHash that encodes its argument as a Map value, markers included.
MapHashWriteAsValue(mk, e, m) == writeValueHash(mk, e, m)

\* MapHash line 72: hw.writeMapHash(m)
MapHashWrite(mk, e, m) == writeMapHash(mk, e, m.kvs)

\* ValueHash line 81: hw.writeValueHash(v)
ValueHashWrite(mk, e, v) == writeValueHash(mk, e, v)

\* The encoder runs over the argument; a panic leaves the function at once.
DoWrite(c) ==
    /\ pc[c] = "reset"
    /\ LET e == IF call[c].fn = "MapHash" THEN MapHashWrite(markers, hw[c], call[c].arg)
                ELSE ValueHashWrite(markers, hw[c], call[c].arg)
       IN /\ hw' = [hw EXCEPT ![c] = Reachable(e)]
          /\ pc' = [pc EXCEPT ![c] = IF e.fault THEN "panic" ELSE "written"]
          /\ call' = [call EXCEPT ![c] =
                        [fn |-> @.fn, arg |-> @.arg, fresh |-> @.fresh,
                         cap0 |-> @.cap0, stream |-> e.h]]
    /\ UNCHANGED <<markers, pool, nextId, res, prev, ncalls>>

\* return hw.hashSum128()
DoSum(c) ==
    /\ pc[c] = "written"
    /\ hw' = [hw EXCEPT ![c] = hashSum128(markers, @)]
    /\ pc' = [pc EXCEPT ![c] = "summed"]
    /\ UNCHANGED <<markers, pool, nextId, call, res, prev, ncalls>>

\* The outcome of a call as its caller sees it, with what the accumulator saw.
Outcome(c) ==
    [fn |-> call[c].fn, arg |-> call[c].arg, fresh |-> call[c].fresh,
     cap0 |-> call[c].cap0, stream |-> call[c].stream,
     fault |-> hw[c].fault,
     digest |-> IF hw[c].fault THEN <<>> ELSE hw[c].sumHash,
     ev |-> hw[c].ev]

\* defer hashWriterPool.Put(hw): runs when the function returns or panics.
PutReturn(c) ==
    /\ pc[c] \in {"summed", "panic"}
    /\ pool' = pool \cup {Pooled(hw[c])}
    /\ hw' = [hw EXCEPT ![c] = NoWriter]
    /\ res' = [res EXCEPT ![c] = Outcome(c)]
    /\ prev' = [prev EXCEPT ![c] = res[c]]
    /\ call' = [call EXCEPT ![c] = NoCall]
    /\ pc' = [pc EXCEPT ![c] = "idle"]
    /\ UNCHANGED <<markers, nextId, ncalls>>

\* One caller at a time: every call runs to its end before the next starts.
Next ==
    \/ \E cl \in Calls : GetPooled(1, cl)
    \/ \E cl \in Calls : GetNew(1, cl)
    \/ DoReset(1)
    \/ DoWrite(1)
    \/ DoSum(1)
    \/ PutReturn(1)

Spec == Init /\ [][Next]_vars

\* Parallel callers sharing the pool.
NextConc ==
    \E c \in Callers :
        \/ \E cl \in Calls : GetPooled(c, cl)
        \/ \E cl \in Calls : GetNew(c, cl)
        \/ DoReset(c)
        \/ DoWrite(c)
        \/ DoSum(c)
        \/ PutReturn(c)

SpecConc == Init /\ [][NextConc]_vars

\* ------------------------------------------------ vocabulary of the claims

Done(r) == r.fn # "none"

\* The outcomes of completed calls the state remembers.
Results == {r \in {res[c] : c \in Callers} \cup {prev[c] : c \in Callers} : Done(r)}

\* A value with every map's entries in ascending key order: two values are
\* the same attribute value exactly when their normal forms are equal.
RECURSIVE Norm(_)
Norm(v) ==
    CASE v.type = "Map" ->
            LET ks == SortStrings([i \in 1..Len(v.kvs) |-> v.kvs[i].key])
            IN NewValueMap([i \in 1..Len(ks) |->
                              KV(ks[i], Norm(v.kvs[Get(v.kvs, ks[i])].val))])
      [] v.type = "Slice" ->
            NewValueSlice([i \in 1..Len(v.elems) |-> Norm(v.elems[i])])
      [] OTHER -> v

RECURSIVE Flatten(_)
Flatten(ss) == IF ss = <<>> THEN <<>> ELSE ss[1] \o Flatten(Tail(ss))

\* The canonical stream of a value: every map entry once, in ascending key
\* order, key fragment then value; containers between their markers.
RECURSIVE Canon(_)
CanonEntries(kvs) ==
    LET n == Norm(NewValueMap(kvs)).kvs
    IN Flatten([i \in 1..Len(n) |-> <<keyPrefix>> \o n[i].key \o Canon(n[i].val)])
Canon(v) ==
    CASE v.type = "Str" -> <<valStrPrefix>> \o v.str
      [] v.type = "Bool" -> IF v.b THEN <<valBoolTrue>> ELSE <<valBoolFalse>>
      [] v.type = "Int" -> <<valIntPrefix>> \o IntBytes(v.i)
      [] v.type = "Double" -> <<valDoublePrefix>> \o v.bits
      [] v.type = "Map" -> <<valMapPrefix>> \o CanonEntries(v.kvs) \o <<valMapSuffix>>
      [] v.type = "Slice" ->
            <<valSlicePrefix>> \o Flatten([i \in 1..Len(v.elems) |-> Canon(v.elems[i])])
               \o <<valSliceSuffix>>
      [] v.type = "Bytes" -> <<valBytesPrefix>> \o v.bytes
      [] v.type = "Empty" -> <<valEmpty>>

\* ------------------------------------------------------------------ claims

\* C1: order independence.  Two calls of the same entry point, on writers
\* of the same keysBuf capacity, whose map arguments hold the same entries
\* inserted in different orders (at any depth) feed the same stream and
\* return the same digest.
C1_OrderIndependence ==
    \A c \in Callers :
        (/\ Done(prev[c]) /\ Done(res[c])
         /\ prev[c].fn = res[c].fn
         /\ prev[c].cap0 = res[c].cap0
         /\ prev[c].arg.type = "Map"
         /\ Norm(prev[c].arg) = Norm(res[c].arg))
        => /\ prev[c].stream = res[c].stream
           /\ prev[c].digest = res[c].digest

\* C2: every encoded map contributes exactly one key fragment per entry, in
\* ascending key order, each followed by that entry's value: a call that
\* returns a digest has fed the canonical stream of its argument.
C2_OneFragmentPerEntry ==
    \A r \in Results :
        ~r.fault =>
            r.stream = IF r.fn = "MapHash" THEN CanonEntries(r.arg.kvs)
                       ELSE Canon(r.arg)

\* C3: totality.  No call faults: every key the loop of writeMapHash takes
\* from the key buffer is a key of the map it iterates, and every call
\* returns a 16-byte digest.
C3_Total ==
    \A r \in Results : ~r.fault /\ Len(r.digest) = 16

\* C4: injectivity of the encoding.  Two ValueHash calls on distinct values
\* feed distinct streams.
C4_Injective ==
    \A c \in Callers :
        (/\ Done(prev[c]) /\ Done(res[c])
         /\ prev[c].fn = "ValueHash" /\ res[c].fn = "ValueHash"
         /\ Norm(prev[c].arg) # Norm(res[c].arg))
        => prev[c].stream # res[c].stream

\* C5: the pool has no correctness role.  A call on a hashWriter taken from
\* the pool has the outcome the same call had on a newly constructed one.
C5_PoolTransparent ==
    \A c \in Callers :
        (/\ Done(prev[c]) /\ Done(res[c])
         /\ prev[c].fn = res[c].fn /\ prev[c].arg = res[c].arg
         /\ prev[c].fresh /\ ~res[c].fresh)
        => /\ res[c].fault = prev[c].fault
           /\ res[c].digest = prev[c].digest

\* C6: pool safety under concurrency.  A checked-out hashWriter is held by
\* one caller only and is not in the pool while held, and every caller gets
\* the outcome a call on a newly constructed hashWriter has for its input.
C6_PoolSafety ==
    /\ \A c \in Callers :
          hw[c] # NoWriter =>
             /\ \A d \in Callers \ {c} : hw[d] # NoWriter => hw[d].id # hw[c].id
             /\ \A w \in pool : w.id # hw[c].id
    /\ \A c, d \in Callers :
          \A r \in {prev[d], res[d]} :
             (/\ Done(res[c]) /\ Done(r)
              /\ r.fresh
              /\ r.fn = res[c].fn /\ r.arg = res[c].arg)
             => /\ res[c].fault = r.fault
                /\ res[c].digest = r.digest

\* C7 as claimed: the stream of a completed MapHash call begins with the
\* map-open marker and ends with the map-close marker.
C7_MapHashWrapped ==
    \A r \in Results :
        (r.fn = "MapHash" /\ ~r.fault) =>
            /\ Len(r.stream) >= 2
            /\ r.stream[1] = valMapPrefix
            /\ r.stream[Len(r.stream)] = valMapSuffix

\* C7 as amended: MapHash feeds the entries only: nothing for an empty map,
\* otherwise a stream that begins with the key marker.  ValueHash of a Map
\* value feeds the map-open marker first and, unless the encoder panicked,
\* the map-close marker last; between them it feeds what MapHash feeds for
\* the same map on a writer of the same keysBuf capacity.
C7_MapHashUnwrapped ==
    /\ \A r \in Results :
          /\ (r.fn = "MapHash" /\ r.arg.kvs = <<>>) => r.stream = <<>>
          /\ (r.fn = "MapHash" /\ r.arg.kvs # <<>>) => r.stream[1] = keyPrefix
          /\ (r.fn = "ValueHash" /\ r.arg.type = "Map") =>
                /\ r.stream[1] = valMapPrefix
                /\ ~r.fault => r.stream[Len(r.stream)] = valMapSuffix
    /\ \A mh, vh \in Results :
          (/\ mh.fn = "MapHash" /\ vh.fn = "ValueHash"
           /\ mh.arg = vh.arg /\ mh.cap0 = vh.cap0)
          => /\ vh.fault = mh.fault
             /\ vh.stream = <<valMapPrefix>> \o mh.stream
                              \o (IF vh.fault THEN <<>> ELSE <<valMapSuffix>>)

\* C7 witness: MapHash and then ValueHash completed on the same map of at
\* least two entries, on writers of the same capacity.
C7_Witness ==
    \E c \in Callers :
        /\ Done(prev[c]) /\ Done(res[c])
        /\ prev[c].fn = "MapHash" /\ res[c].fn = "ValueHash"
        /\ prev[c].arg = res[c].arg /\ prev[c].cap0 = res[c].cap0
        /\ Len(res[c].arg.kvs) >= 2
        /\ ~res[c].fault

\* C8: the accumulator sees one Reset, then the encoder's writes, then one
\* sum, the extra byte, and a second sum; the digest is the sum of the
\* stream followed by the sum of the stream with the extra byte appended.
C8_EngineOrder ==
    \A r \in Results :
        LET n == Len(r.ev)
        IN /\ n >= 4
           /\ r.ev[1] = "Reset"
           /\ \A i \in 2..(n - 3) : r.ev[i] = "Write"
           /\ SubSeq(r.ev, n - 2, n) = <<"Sum", "Write", "Sum">>
           /\ r.digest = SumAppend(SumAppend(<<>>, r.stream),
                                   r.stream \o <<extraByte>>)

\* C9: nesting disambiguation.  A Slice is fed as slice-open, its elements
\* in order, slice-close; v, Slice([v]) and Slice([Slice([v])]) have
\* pairwise different streams, so have the empty map, the empty slice and
\* Empty, and so have Map{k: v} and Slice([Str(k), v]).
C9_Nesting ==
    /\ \A r \in Results :
          (r.fn = "ValueHash" /\ r.arg.type = "Slice") =>
             r.stream = <<valSlicePrefix>>
                           \o Flatten([i \in 1..Len(r.arg.elems) |-> Canon(r.arg.elems[i])])
                           \o <<valSliceSuffix>>
    /\ \A r1, r2 \in Results :
          (/\ r1.fn = "ValueHash" /\ r2.fn = "ValueHash"
           /\ \/ r2.arg = NewValueSlice(<<r1.arg>>)
              \/ r2.arg = NewValueSlice(<<NewValueSlice(<<r1.arg>>)>>)
              \/ /\ r1.arg # r2.arg
                 /\ {r1.arg, r2.arg} \subseteq
                       {NewValueMap(<<>>), NewValueSlice(<<>>), NewValueEmpty}
              \/ /\ r1.arg.type = "Map" /\ Len(r1.arg.kvs) = 1
                 /\ r2.arg = NewValueSlice(<<NewValueStr(r1.arg.kvs[1].key),
                                             r1.arg.kvs[1].val>>))
          => r1.stream # r2.stream

\* C10: marker disjointness.  The thirteen marker variables are one-byte
\* slices with pairwise distinct bytes in 0xF0..0xFF, and they hold the
\* bytes the package gave them whatever calls have run.
C10_Markers ==
    /\ Cardinality(DOMAIN markers) = 13
    /\ \A n \in DOMAIN markers :
          /\ Len(markers[n]) = 1
          /\ markers[n][1] \in 240..255
    /\ \A n1, n2 \in DOMAIN markers :
          n1 # n2 => markers[n1] # markers[n2]
    /\ markers = MarkerVars

\* C10 witness: a call that fed marker bytes of several kinds has completed.
C10_Witness ==
    \E c \in Callers :
        /\ Done(res[c])
        /\ ~res[c].fault
        /\ res[c].arg.type = "Map"
        /\ Len(res[c].arg.kvs) >= 2
        /\ markers = MarkerVars

\* Whether the bytes of s from index i on are well-formed UTF-8 (RFC 3629,
\* Go's utf8.Valid): no overlong forms, no surrogates, nothing above U+10FFFF.
RECURSIVE ValidUTF8From(_, _)
ValidUTF8From(s, i) ==
    LET n == Len(s)
        Cont(j, lo, hi) == j <= n /\ s[j] >= lo /\ s[j] <= hi
        b == s[i]
    IN IF i > n THEN TRUE
       ELSE IF b <= 127 THEN ValidUTF8From(s, i + 1)
       ELSE IF b >= 194 /\ b <= 223
            THEN Cont(i + 1, 128, 191) /\ ValidUTF8From(s, i + 2)
       ELSE IF b >= 224 /\ b <= 239
            THEN /\ Cont(i + 1, IF b = 224 THEN 160 ELSE 128,
                                IF b = 237 THEN 159 ELSE 191)
                 /\ Cont(i + 2, 128, 191)
                 /\ ValidUTF8From(s, i + 3)
       ELSE IF b >= 240 /\ b <= 244
            THEN /\ Cont(i + 1, IF b = 240 THEN 144 ELSE 128,
                                IF b = 244 THEN 143 ELSE 191)
                 /\ Cont(i + 2, 128, 191)
                 /\ Cont(i + 3, 128, 191)
                 /\ ValidUTF8From(s, i + 4)
       ELSE FALSE

ValidUTF8(s) == ValidUTF8From(s, 1)

\* The Str payloads and the map keys of a value, at any depth.
RECURSIVE StringsOf(_)
StringsOf(v) ==
    CASE v.type = "Str" -> {v.str}
      [] v.type = "Map" ->
            {v.kvs[i].key : i \in 1..Len(v.kvs)}
               \cup UNION {StringsOf(v.kvs[i].val) : i \in 1..Len(v.kvs)}
      [] v.type = "Slice" -> UNION {StringsOf(v.elems[i]) : i \in 1..Len(v.elems)}
      [] OTHER -> {}

\* C11: no forgery by string content.  In every call that has run, no byte
\* of a valid UTF-8 Str payload or map key of the argument equals a marker
\* byte or the extension byte, so every such byte value in the stream the
\* call fed was written as a marker.
C11_NoForgery ==
    \A r \in Results :
        \A s \in StringsOf(r.arg) :
            ValidUTF8(s) =>
                \A i \in 1..Len(s) :
                    \A n \in DOMAIN markers : s[i] # markers[n][1]

=============================================================================
